---------------------------- MODULE Spec2Model ----------------------------
(***************************************************************************)
(* A model of the news scraper (scraper.py) and of the retention sweeper   *)
(* (cleanup_old_articles.py).                                              *)
(*                                                                         *)
(* Four specifications share the module:                                   *)
(*   SpecParse    DateParser.parse_date applied to bounded date texts      *)
(*   SpecMerge    merge_contiguous_rows applied to bounded index lists     *)
(*   SpecCleanup  one run of cleanup_old_articles against a sheet          *)
(*   Spec         runs of SheetNewsScraper.run against a sheet             *)
(***************************************************************************)
EXTENDS Integers, Sequences, FiniteSets, TLC

VARIABLES
    \* ---- SpecParse
    p_text,         \* the raw date text handed to parse_date
    p_now,          \* datetime.now() inside parse_date
    p_out,          \* the value parse_date returns
    p_pc,
    \* ---- SpecMerge
    m_rows,         \* the argument of merge_contiguous_rows
    m_out,          \* its result
    m_pc,
    \* ---- SpecCleanup
    main_sheet,     \* rows of Sheet1, header first
    archive_sheet,  \* rows of the Archive sheet
    c_now,          \* now_ist() of the run
    c_rows,         \* rows = main_sheet.get_all_values()
    rows_to_delete_idx,
    rows_to_archive,
    requests,       \* the deleteDimension requests, in the order issued
    c_log,          \* the store writes the run has made, in order
    c_pc,
    \* ---- Spec (the scraper)
    sheet,          \* rows of the scraper's sheet, header first
    pages,          \* per site, the containers its page shows
    now,            \* the wall clock
    existing_links, \* the module-level link set
    cutoff_time,    \* SheetNewsScraper.cutoff_time
    site,           \* index of the config being processed
    articles,       \* site_articles of the current config
    idx,            \* position of save_articles in articles
    saved,          \* save_articles' counter
    attempts,       \* append attempts made for the current row
    total_found,
    total_saved,
    runs,           \* number of runs started
    hist,           \* per site of this run: how its scrape ended, and whether
                    \* save_articles returned (history variable)
    base,           \* number of rows the sheet held when this run started
                    \* (history variable)
    pc

parseVars   == <<p_text, p_now, p_out, p_pc>>
mergeVars   == <<m_rows, m_out, m_pc>>
cleanupVars == <<main_sheet, archive_sheet, c_now, c_rows, rows_to_delete_idx,
                 rows_to_archive, requests, c_log, c_pc>>
runVars     == <<sheet, pages, now, existing_links, cutoff_time, site, articles,
                 idx, saved, attempts, total_found, total_saved, runs, hist, base, pc>>
vars        == <<parseVars, mergeVars, cleanupVars, runVars>>

-----------------------------------------------------------------------------
(* Bounds of the model *)

SubSec      == 2    \* clock ticks per second (datetime carries sub-seconds)
MaxPairs    == 2    \* (number, word) pairs in a relative date text
MaxN        == 2    \* largest number written in a relative date text

(* Program constants *)

CUT_OFF_HOURS  == 25
DAYS_LIMIT     == 2
MIN_TITLE_LEN  == 6
RETRY_SLEEP_S  == 30
MAX_AGE_DAYS   == 3
DATE_COL_INDEX == 2

-----------------------------------------------------------------------------
(* Time: an instant is a number of ticks since 2024-01-01 00:00:00.        *)

Second == SubSec
Minute == 60 * Second
Hour   == 60 * Minute
Day    == 24 * Hour
Week   == 7 * Day

Min2(a, b) == IF a <= b THEN a ELSE b

None    == <<>>
Some(x) == <<x>>

\* The proleptic Gregorian calendar of datetime.
IsLeap(y) == (y % 4 = 0 /\ y % 100 # 0) \/ y % 400 = 0

DaysInMonth(y, m) ==
    IF m = 2 THEN (IF IsLeap(y) THEN 29 ELSE 28)
    ELSE IF m \in {4, 6, 9, 11} THEN 30 ELSE 31

DaysFromCivil(y, m, d) ==
    LET yy  == IF m <= 2 THEN y - 1 ELSE y
        era == yy \div 400
        yoe == yy - era * 400
        mp  == IF m > 2 THEN m - 3 ELSE m + 9
        doy == (153 * mp + 2) \div 5 + d - 1
        doe == yoe * 365 + yoe \div 4 - yoe \div 100 + doy
    IN  era * 146097 + doe - 719468

CivilFromDays(z0) ==
    LET z   == z0 + 719468
        era == z \div 146097
        doe == z - era * 146097
        yoe == (doe - doe \div 1460 + doe \div 36524 - doe \div 146096) \div 365
        doy == doe - (365 * yoe + yoe \div 4 - yoe \div 100)
        mp  == (5 * doy + 2) \div 153
        d   == doy - (153 * mp + 2) \div 5 + 1
        m   == IF mp < 10 THEN mp + 3 ELSE mp - 9
        y   == yoe + era * 400 + (IF m <= 2 THEN 1 ELSE 0)
    IN  [y |-> y, m |-> m, d |-> d]

EpochDays == DaysFromCivil(2024, 1, 1)

\* datetime(y, m, d, h, mi, s) plus sub ticks
At(y, m, d, h, mi, s, sub) ==
    (DaysFromCivil(y, m, d) - EpochDays) * Day + h * Hour + mi * Minute
        + s * Second + sub

\* dt.replace(hour=12, minute=0, second=0, microsecond=0)
ReplaceNoon(t) == (t \div Day) * Day + 12 * Hour

\* dt - relativedelta(months=n): the calendar month moves, the day of the
\* month is clipped to the length of the target month, the time is kept.
SubMonths(t, n) ==
    LET c     == CivilFromDays(t \div Day + EpochDays)
        total == c.y * 12 + (c.m - 1) - n
        y2    == total \div 12
        m2    == (total % 12) + 1
        d2    == Min2(c.d, DaysInMonth(y2, m2))
    IN  (DaysFromCivil(y2, m2, d2) - EpochDays) * Day + (t % Day)

\* dt - relativedelta(years=n)
SubYears(t, n) ==
    LET c  == CivilFromDays(t \div Day + EpochDays)
        y2 == c.y - n
        d2 == Min2(c.d, DaysInMonth(y2, c.m))
    IN  (DaysFromCivil(y2, c.m, d2) - EpochDays) * Day + (t % Day)

-----------------------------------------------------------------------------
(* Text.  A string is a sequence of one-character strings.  A date text is *)
(* a sequence of whitespace-separated tokens:                              *)
(*    <<"n", k>>   the digits of k                                         *)
(*    <<"w", s>>   the word s                                              *)
(*    <<"p", s>>   a separator: "," "|" a bullet or a spaced dash          *)
(*    <<"d", t>>   an absolute date in words, naming the instant t         *)

IsPrefix(p, w) == Len(p) <= Len(w) /\ SubSeq(w, 1, Len(p)) = p

Contains(w, s) ==
    \E i \in 1..(Len(w) - Len(s) + 1) : SubSeq(w, i, i + Len(s) - 1) = s

Num(k)  == <<"n", k>>
Word(s) == <<"w", s>>
Comma   == <<"p", <<",">>>>

s_hour      == <<"h","o","u","r">>
s_hr        == <<"h","r">>
s_minute    == <<"m","i","n","u","t","e">>
s_min       == <<"m","i","n">>
s_day       == <<"d","a","y">>
s_week      == <<"w","e","e","k">>
s_month     == <<"m","o","n","t","h">>
s_year      == <<"y","e","a","r">>
s_ago       == <<"a","g","o">>
s_today     == <<"t","o","d","a","y">>
s_yesterday == <<"y","e","s","t","e","r","d","a","y">>
s_by        == <<"b","y">>
s_on        == <<"o","n">>
s_posted    == <<"p","o","s","t","e","d">>
s_published == <<"p","u","b","l","i","s","h","e","d">>
s_updated   == <<"u","p","d","a","t","e","d">>
s_john      == <<"j","o","h","n">>
s_soon      == <<"s","o","o","n">>

IsNum(tok)   == tok[1] = "n"
IsWord(tok)  == tok[1] = "w"
IsPunct(tok) == tok[1] = "p"
\* what the class [\w\s] runs over: anything but a separator
IsWordy(tok) == ~IsPunct(tok)

RECURSIVE DropWordy(_)
DropWordy(toks) ==
    IF toks # <<>> /\ IsWordy(Head(toks)) THEN DropWordy(Tail(toks)) ELSE toks

\* re.sub(r"by\s+[\w\s]+", " ", text, flags=IGNORECASE): "by", and after it
\* the whole run of words up to the next separator, go.
RECURSIVE StripBy(_)
StripBy(toks) ==
    IF toks = <<>> THEN <<>>
    ELSE IF Head(toks) = Word(s_by) /\ Len(toks) >= 2 /\ IsWordy(toks[2])
         THEN StripBy(DropWordy(Tail(toks)))
         ELSE <<Head(toks)>> \o StripBy(Tail(toks))

\* re.sub of "Posted\s+on", "Published\s+on", "Updated\s+on"
RECURSIVE StripPostedOn(_)
StripPostedOn(toks) ==
    IF toks = <<>> THEN <<>>
    ELSE IF /\ Len(toks) >= 2
            /\ Head(toks) \in {Word(s_posted), Word(s_published), Word(s_updated)}
            /\ toks[2] = Word(s_on)
         THEN StripPostedOn(Tail(Tail(toks)))
         ELSE <<Head(toks)>> \o StripPostedOn(Tail(toks))

\* the bullet, bar and dash patterns and the final re.sub(r"[,|•]", " ")
StripPunct(toks) == SelectSeq(toks, LAMBDA tok : ~IsPunct(tok))

\* lines 81-93 of parse_date: the text that is left to parse
StripNoise(toks) == StripPunct(StripPostedOn(StripBy(StripBy(toks))))

\* "<s>" in text.lower(): a substring test, so inside any word
HasSub(toks, s) == \E i \in 1..Len(toks) : IsWord(toks[i]) /\ Contains(toks[i][2], s)

\* dateutil.parser.parse(text, fuzzy=True) on a text holding an absolute
\* date; a text with neither a date nor a digit raises (None here).
FuzzyParse(toks) ==
    LET ds == {i \in 1..Len(toks) : toks[i][1] = "d"}
    IN  IF ds = {} THEN None
        ELSE Some(toks[CHOOSE i \in ds : \A j \in ds : i <= j][2])

\* the table of parse_relative, in its order
Patterns ==
    << <<s_hour, "hours">>,     <<s_hr, "hours">>,
       <<s_minute, "minutes">>, <<s_min, "minutes">>,
       <<s_day, "days">>,       <<s_week, "weeks">>,
       <<s_month, "months">>,   <<s_year, "years">> >>

\* the positions where r"(\d+)\s+<patt>" matches
MatchesAt(toks, patt) ==
    {i \in 1..(Len(toks) - 1) :
        IsNum(toks[i]) /\ IsWord(toks[i + 1]) /\ IsPrefix(patt, toks[i + 1][2])}

Leftmost(S) == CHOOSE i \in S : \A j \in S : i <= j

Subtract(t, n, unit) ==
    CASE unit = "hours"   -> t - n * Hour
      [] unit = "minutes" -> t - n * Minute
      [] unit = "days"    -> t - n * Day
      [] unit = "weeks"   -> t - n * Week
      [] unit = "months"  -> SubMonths(t, n)
      [] unit = "years"   -> SubYears(t, n)

RECURSIVE RelativeFrom(_, _, _)
RelativeFrom(toks, t, k) ==
    IF k > Len(Patterns) THEN None
    ELSE LET ms == MatchesAt(toks, Patterns[k][1])
         IN  IF ms # {}
             THEN Some(Subtract(t, toks[Leftmost(ms)][2], Patterns[k][2]))
             ELSE RelativeFrom(toks, t, k + 1)

parse_relative(toks, t) == RelativeFrom(toks, t, 1)

NoText == <<>>

parse_date(date_text, t) ==
    IF date_text = NoText THEN None
    ELSE LET text == StripNoise(date_text)
         IN  IF HasSub(text, s_ago) THEN parse_relative(text, t)
             ELSE IF HasSub(text, s_today) THEN Some(ReplaceNoon(t))
             ELSE IF HasSub(text, s_yesterday) THEN Some(ReplaceNoon(t - Day))
             ELSE LET parsed == FuzzyParse(text)
                  IN  IF parsed = None THEN None
                      ELSE Some(ReplaceNoon(parsed[1]))

(* Cells of the date column, as stored:                                    *)
(*   <<"ts", s>>     "YYYY-MM-DD HH:MM:SS" naming second s                 *)
(*   <<"empty", 0>>  ""                                                    *)
(*   <<"blank", 0>>  white space only                                      *)
(*   <<"junk", 0>>   text dateutil cannot parse                            *)
EmptyText == <<"empty", 0>>
BlankText == <<"blank", 0>>
JunkText  == <<"junk", 0>>
Stamp(s)  == <<"ts", s>>

\* DateParser.format: strftime drops the sub-second part
format(dt) == IF dt = None THEN EmptyText ELSE Stamp(dt[1] \div Second)

\* str.strip() of a date cell
StripCell(cell) == IF cell = BlankText THEN EmptyText ELSE cell

\* dateutil.parser.parse(date_str): None stands for the exception
dateutil_parse(cell) == IF cell[1] = "ts" THEN Some(cell[2] * Second) ELSE None

-----------------------------------------------------------------------------
(* cleanup_old_articles.py: merge_contiguous_rows                          *)

RECURSIVE MergeLoop(_, _, _, _)
MergeLoop(rest, start, prev, ranges) ==
    IF rest = <<>> THEN Append(ranges, <<start, prev + 1>>)
    ELSE LET r == Head(rest)
         IN  IF r = prev + 1
             THEN MergeLoop(Tail(rest), start, r, ranges)
             ELSE MergeLoop(Tail(rest), r, r, Append(ranges, <<start, prev + 1>>))

\* the function without its sorted(rows)
merge_unsorted(rows) ==
    IF rows = <<>> THEN <<>>
    ELSE MergeLoop(Tail(rows), Head(rows), Head(rows), <<>>)

merge_contiguous_rows(rows) ==
    IF rows = <<>> THEN <<>>
    ELSE LET sorted == SortSeq(rows, LAMBDA a, b : a < b)
         IN  MergeLoop(Tail(sorted), Head(sorted), Head(sorted), <<>>)

-----------------------------------------------------------------------------
(* Values the variables of a specification hold while another one runs *)

ParseIdle ==
    p_text = NoText /\ p_now = 0 /\ p_out = None /\ p_pc = "idle"

MergeIdle ==
    m_rows = <<>> /\ m_out = <<>> /\ m_pc = "idle"

CleanupIdle ==
    /\ main_sheet = <<>> /\ archive_sheet = <<>> /\ c_now = 0 /\ c_rows = <<>>
    /\ rows_to_delete_idx = <<>> /\ rows_to_archive = <<>> /\ requests = <<>>
    /\ c_log = <<>> /\ c_pc = "idle"

RunIdle ==
    /\ sheet = <<>> /\ pages = <<>> /\ now = 0 /\ existing_links = {}
    /\ cutoff_time = 0 /\ site = 0 /\ articles = <<>> /\ idx = 0 /\ saved = 0
    /\ attempts = 0 /\ total_found = 0 /\ total_saved = 0 /\ runs = 0
    /\ hist = <<>> /\ base = 0 /\ pc = "idle"

-----------------------------------------------------------------------------
(* SpecParse: parse_date on bounded date texts *)

Plural(s) == s \o <<"s">>

SecondWords ==
    {Plural(s_hour), Plural(s_hr), Plural(s_minute), Plural(s_min),
     s_day, Plural(s_week), s_month, Plural(s_year), s_soon}

Pairs == {<<Num(n), Word(w)>> : n \in 1..MaxN, w \in SecondWords}

RECURSIVE PairSeqs(_)
PairSeqs(k) ==
    IF k = 0 THEN {<<>>}
    ELSE LET shorter == PairSeqs(k - 1)
         IN  shorter \cup {s \o q : s \in shorter, q \in Pairs}

Prefixes ==
    {<<>>,
     <<Word(s_posted), Word(s_on)>>,
     <<Word(s_by), Word(s_john)>>,
     <<Word(s_by), Word(s_john), Comma>>}

RelativeTexts ==
    {pre \o body \o <<Word(s_ago)>> : pre \in Prefixes, body \in PairSeqs(MaxPairs)}

OtherTexts ==
    {NoText,
     <<Word(s_today)>>,
     <<Word(s_yesterday)>>,
     <<Word(s_soon)>>,
     <<Word(s_updated), Word(s_on), <<"d", At(2024, 3, 30, 9, 15, 0, 0)>>>>}

ParseNows ==
    {At(2024, 3, 31, 10, 30, 5, 1),
     At(2024, 2, 29, 23, 59, 59, 0),
     At(2024, 1, 15, 0, 0, 10, 1)}

InitParse ==
    /\ p_text \in RelativeTexts \cup OtherTexts
    /\ p_now \in ParseNows
    /\ p_out = None
    /\ p_pc = "start"
    /\ MergeIdle /\ CleanupIdle /\ RunIdle

ParseDate ==
    /\ p_pc = "start"
    /\ p_out' = parse_date(p_text, p_now)
    /\ p_pc' = "done"
    /\ UNCHANGED <<p_text, p_now, mergeVars, cleanupVars, runVars>>

NextParse == ParseDate

SpecParse == InitParse /\ [][NextParse]_vars

\* The (number, unit) pairs of a text, by position
PairPositions(toks) ==
    {i \in 1..(Len(toks) - 1) :
        /\ IsNum(toks[i]) /\ IsWord(toks[i + 1])
        /\ \E k \in 1..Len(Patterns) : IsPrefix(Patterns[k][1], toks[i + 1][2])}

UnitOfWord(w) ==
    Patterns[Leftmost({k \in 1..Len(Patterns) : IsPrefix(Patterns[k][1], w)})][2]

\* now minus the pair that stands first in the text
FirstPairInText(toks, t) ==
    IF PairPositions(toks) = {} THEN None
    ELSE LET i == Leftmost(PairPositions(toks))
         IN  Some(Subtract(t, toks[i][2], UnitOfWord(toks[i + 1][2])))

\* C9: for a text that (after the noise is stripped) contains "ago",
\* parse_date returns now minus the (number, unit) pair that occurs first in
\* the text, and None when the text holds no such pair.
C9_FirstPairInTextDecides ==
    (p_pc = "done" /\ HasSub(StripNoise(p_text), s_ago))
        => p_out = FirstPairInText(StripNoise(p_text), p_now)

-----------------------------------------------------------------------------
(* SpecMerge: merge_contiguous_rows on bounded lists of distinct integers *)

MaxIndex == 8   \* largest row index in a list
MaxRows  == 5   \* longest list

RECURSIVE DistinctSeqs(_)
DistinctSeqs(k) ==
    IF k = 0 THEN {<<>>}
    ELSE LET shorter == DistinctSeqs(k - 1)
         IN  shorter \cup
             {Append(s, x) : s \in {q \in shorter : Len(q) = k - 1}, x \in 0..MaxIndex}

Range(s) == {s[i] : i \in 1..Len(s)}

IsDistinct(s) == Cardinality(Range(s)) = Len(s)

InitMerge ==
    /\ m_rows \in {s \in DistinctSeqs(MaxRows) : IsDistinct(s)}
    /\ m_out = <<>>
    /\ m_pc = "start"
    /\ ParseIdle /\ CleanupIdle /\ RunIdle

Merge ==
    /\ m_pc = "start"
    /\ m_out' = merge_contiguous_rows(m_rows)
    /\ m_pc' = "done"
    /\ UNCHANGED <<m_rows, parseVars, cleanupVars, runVars>>

NextMerge == Merge

SpecMerge == InitMerge /\ [][NextMerge]_vars

Covered(ranges) ==
    UNION {ranges[i][1]..(ranges[i][2] - 1) : i \in 1..Len(ranges)}

\* C3: the result of merge_contiguous_rows on a list of distinct integers is
\* a list of non-empty half-open ranges, ascending, each starting after the
\* end of the one before it (disjoint and not adjacent), whose union is the
\* set of the integers given; [2,3,4,7,8] gives [(2,5),(7,9)], [] gives []
\* and [5] gives [(5,6)].
C3_MergeContiguous ==
    m_pc = "done" =>
        /\ \A i \in 1..Len(m_out) : m_out[i][1] < m_out[i][2]
        /\ \A i \in 1..(Len(m_out) - 1) : m_out[i + 1][1] > m_out[i][2]
        /\ Covered(m_out) = Range(m_rows)
        /\ (m_rows = <<2, 3, 4, 7, 8>> => m_out = << <<2, 5>>, <<7, 9>> >>)
        /\ (m_rows = <<>> => m_out = <<>>)
        /\ (m_rows = <<5>> => m_out = << <<5, 6>> >>)

C3_Witness ==
    /\ m_pc = "done"
    /\ m_rows = <<8, 2, 4, 7, 3>>
    /\ m_out = << <<2, 5>>, <<7, 9>> >>

-----------------------------------------------------------------------------
(* SpecCleanup: cleanup_old_articles                                       *)
(* A row is a sequence of cells; column C (index DATE_COL_INDEX) is the    *)
(* date.  Positions in the code are 0-based; a sequence here is 1-based,   *)
(* so the row at 0-based position i is rows[i + 1].                        *)

MaxData == 3    \* data rows in the sheet

Header == <<"Source", "Title", <<"hdr", 0>>>>

DataRow(title, cell) == <<"site", title, cell>>

\* the loop body of lines 88-105 for one row: is the row marked?
MarksRowAtOrOlder(row, cutoff) ==
    /\ Len(row) > DATE_COL_INDEX
    /\ LET date_str == StripCell(row[DATE_COL_INDEX + 1])
           dt       == dateutil_parse(date_str)
       IN  date_str # EmptyText /\ dt # None /\ dt[1] <= cutoff

MarksRow(row, cutoff) ==
    /\ Len(row) > DATE_COL_INDEX
    /\ LET date_str == StripCell(row[DATE_COL_INDEX + 1])
           dt       == dateutil_parse(date_str)
       IN  date_str # EmptyText /\ dt # None /\ dt[1] < cutoff

\* for sheet_row_num, row in enumerate(rows[1:], start=2): k is sheet_row_num
RECURSIVE ScanRows(_, _, _, _, _)
ScanRows(rows, k, cutoff, del, arch) ==
    IF k > Len(rows) THEN <<del, arch>>
    ELSE IF MarksRow(rows[k], cutoff)
         THEN ScanRows(rows, k + 1, cutoff, Append(del, k - 1), Append(arch, rows[k]))
         ELSE ScanRows(rows, k + 1, cutoff, del, arch)

KeepOrder(ranges) == ranges

\* delete_ranges.sort(reverse=True)
SortReverse(ranges) ==
    SortSeq(ranges, LAMBDA a, b : a[1] > b[1] \/ (a[1] = b[1] /\ a[2] > b[2]))

\* lines 119-132: one request per range that starts inside the table
RECURSIVE BuildRequests(_, _)
BuildRequests(ranges, total_rows) ==
    IF ranges = <<>> THEN <<>>
    ELSE LET r == Head(ranges)
         IN  IF r[1] >= total_rows
             THEN BuildRequests(Tail(ranges), total_rows)
             ELSE << <<r[1], Min2(r[2], total_rows)>> >>
                      \o BuildRequests(Tail(ranges), total_rows)

DeleteRequests(del, total_rows) ==
    BuildRequests(SortReverse(merge_contiguous_rows(del)), total_rows)

\* The store's deleteDimension on ROWS [start, end): the rows after the
\* range move up.
DeleteDimension(table, start, end) ==
    SubSeq(table, 1, Min2(start, Len(table)))
        \o SubSeq(table, Min2(end, Len(table)) + 1, Len(table))

\* The store applies the requests of one batch_update in the order given.
RECURSIVE ApplyRequests(_, _)
ApplyRequests(table, reqs) ==
    IF reqs = <<>> THEN table
    ELSE ApplyRequests(DeleteDimension(table, Head(reqs)[1], Head(reqs)[2]), Tail(reqs))

\* where the run is once archive_sheet.append_rows has raised
ArchiveErrorSwallowed == "delete"

AfterArchiveError == "failed"

CleanNows == {At(2024, 3, 10, 8, 0, 0, 0), At(2024, 3, 10, 8, 0, 0, 1)}

\* date cells around the retention cutoff of a run at instant t
CleanCells(t) ==
    {Stamp((t - 4 * Day) \div Second),
     Stamp((t - 2 * Day) \div Second),
     Stamp((t - Hour) \div Second),
     Stamp((t - MAX_AGE_DAYS * Day) \div Second),
     Stamp((t - MAX_AGE_DAYS * Day) \div Second - 1),
     EmptyText, BlankText, JunkText}

CleanRows(t) == {DataRow("t", c) : c \in CleanCells(t)} \cup {<<"site">>}

RECURSIVE SeqsUpTo(_, _)
SeqsUpTo(S, k) ==
    IF k = 0 THEN {<<>>}
    ELSE LET shorter == SeqsUpTo(S, k - 1)
         IN  shorter \cup {Append(s, x) : s \in {q \in shorter : Len(q) = k - 1}, x \in S}

InitCleanup ==
    /\ c_now \in CleanNows
    /\ main_sheet \in {<<>>} \cup {<<Header>> \o d : d \in SeqsUpTo(CleanRows(c_now), MaxData)}
    /\ archive_sheet = <<Header>>
    /\ c_rows = <<>>
    /\ rows_to_delete_idx = <<>>
    /\ rows_to_archive = <<>>
    /\ requests = <<>>
    /\ c_log = <<>>
    /\ c_pc = "start"
    /\ ParseIdle /\ MergeIdle /\ RunIdle

\* lines 76-109
Scan ==
    /\ c_pc = "start"
    /\ c_rows' = main_sheet
    /\ IF Len(main_sheet) <= 1
       THEN /\ c_pc' = "done"
            /\ UNCHANGED <<rows_to_delete_idx, rows_to_archive>>
       ELSE LET cutoff == c_now - MAX_AGE_DAYS * Day
                res    == ScanRows(main_sheet, 2, cutoff, <<>>, <<>>)
            IN  /\ rows_to_delete_idx' = res[1]
                /\ rows_to_archive' = res[2]
                /\ c_pc' = IF res[1] = <<>> THEN "done" ELSE "archive"
    /\ UNCHANGED <<main_sheet, archive_sheet, c_now, requests, c_log,
                   parseVars, mergeVars, runVars>>

\* line 112, the write succeeds
ArchiveOk ==
    /\ c_pc = "archive"
    /\ archive_sheet' = archive_sheet \o rows_to_archive
    /\ c_log' = Append(c_log, "archive")
    /\ c_pc' = "delete"
    /\ UNCHANGED <<main_sheet, c_now, c_rows, rows_to_delete_idx, rows_to_archive,
                   requests, parseVars, mergeVars, runVars>>

\* line 112, the write raises: nothing catches it
ArchiveFail ==
    /\ c_pc = "archive"
    /\ c_pc' = AfterArchiveError
    /\ UNCHANGED <<main_sheet, archive_sheet, c_now, c_rows, rows_to_delete_idx,
                   rows_to_archive, requests, c_log, parseVars, mergeVars, runVars>>

\* lines 116-134, the batch is applied
BatchUpdateOk ==
    /\ c_pc = "delete"
    /\ requests' = DeleteRequests(rows_to_delete_idx, Len(c_rows))
    /\ main_sheet' = ApplyRequests(main_sheet, requests')
    /\ c_log' = Append(c_log, "delete")
    /\ c_pc' = "done"
    /\ UNCHANGED <<archive_sheet, c_now, c_rows, rows_to_delete_idx, rows_to_archive,
                   parseVars, mergeVars, runVars>>

\* lines 116-134, the batch is refused as a whole
BatchUpdateFail ==
    /\ c_pc = "delete"
    /\ requests' = DeleteRequests(rows_to_delete_idx, Len(c_rows))
    /\ c_pc' = "failed"
    /\ UNCHANGED <<main_sheet, archive_sheet, c_now, c_rows, rows_to_delete_idx,
                   rows_to_archive, c_log, parseVars, mergeVars, runVars>>

NextCleanup ==
    \/ Scan
    \/ ArchiveOk
    \/ ArchiveFail
    \/ BatchUpdateOk
    \/ BatchUpdateFail

SpecCleanup == InitCleanup /\ [][NextCleanup]_vars

\* the rows of a table at the 0-based positions outside D, in their order
RECURSIVE Without(_, _, _)
Without(table, D, k) ==
    IF k > Len(table) THEN <<>>
    ELSE (IF (k - 1) \in D THEN <<>> ELSE <<table[k]>>) \o Without(table, D, k + 1)

Deleted == "delete" \in Range(c_log)

\* C1: once the batch of delete ranges has been applied, request after
\* request in the order issued (descending start), the sheet is the table
\* that was read minus the marked rows: the header and every unmarked row
\* are there, in their original order, and no marked row is.
C1_DescendingDeleteExact ==
    Deleted =>
        /\ \A i \in 1..(Len(requests) - 1) : requests[i][1] > requests[i + 1][1]
        /\ main_sheet = Without(c_rows, Range(rows_to_delete_idx), 1)
        /\ main_sheet[1] = Header
        /\ Len(main_sheet) = Len(c_rows) - Len(rows_to_delete_idx)

C1_Witness ==
    /\ Deleted
    /\ Len(requests) = 2
    /\ rows_to_delete_idx = <<1, 3>>
    /\ main_sheet = <<c_rows[1], c_rows[3]>>

\* the date of a row parses and is strictly before the cutoff of the run
StrictlyOlder(row) ==
    /\ Len(row) >= 3
    /\ row[3][1] = "ts"
    /\ row[3][2] * Second < c_now - 3 * Day

ExampleTable ==
    <<Header,
      DataRow("t", Stamp((c_now - 4 * Day) \div Second)),
      DataRow("t", Stamp((c_now - 2 * Day) \div Second)),
      DataRow("t", Stamp((c_now - Hour) \div Second))>>

\* C2: the sweeper marks the 0-based position i of a data row exactly when
\* the row's date parses and is strictly older than the cutoff (a row dated
\* at the cutoff is kept, a row one second older is marked, a row with no
\* date, an empty or an unparsable one is never marked); positions count the
\* header, so rows dated [T-4d, T-2d, T-1h] give the one delete range (1,2).
C2_MarksStrictlyOlder ==
    c_pc # "start" =>
        /\ \A i \in 1..(Len(c_rows) - 1) :
              (i \in Range(rows_to_delete_idx)) <=> StrictlyOlder(c_rows[i + 1])
        /\ \A k \in 1..(Len(rows_to_delete_idx) - 1) :
              rows_to_delete_idx[k] < rows_to_delete_idx[k + 1]
        /\ (c_rows = ExampleTable => rows_to_delete_idx = <<1>>)
        /\ (c_rows = ExampleTable /\ Deleted => requests = << <<1, 2>> >>)

C2_Witness ==
    /\ c_rows = ExampleTable
    /\ Deleted
    /\ requests = << <<1, 2>> >>

\* the rows marked for deletion, copied from the table that was read
MarkedRows ==
    [k \in 1..Len(rows_to_delete_idx) |-> c_rows[rows_to_delete_idx[k] + 1]]

\* C4: rows leave the primary sheet only after they were appended verbatim
\* to the archive: a delete is preceded by the archive write, the archive
\* then holds exactly the marked rows after what it held, and a run whose
\* archive write failed leaves the primary sheet as it was read.
C4_ArchiveBeforeDelete ==
    c_pc # "start" =>
        /\ (Deleted \/ main_sheet # c_rows) =>
              /\ c_log = <<"archive", "delete">>
              /\ archive_sheet = <<Header>> \o MarkedRows
        /\ "archive" \notin Range(c_log) =>
              /\ main_sheet = c_rows
              /\ archive_sheet = <<Header>>

C4_Witness ==
    /\ c_pc = "done"
    /\ c_log = <<"archive", "delete">>
    /\ rows_to_delete_idx = <<1, 3>>
    /\ archive_sheet = <<Header, c_rows[2], c_rows[4]>>
    /\ main_sheet = <<Header, c_rows[3]>>

-----------------------------------------------------------------------------
(* scraper.py: the link set, the extractor and the validity test           *)

\* str.strip(): white space off both ends
RECURSIVE LStrip(_)
LStrip(str) == IF str # <<>> /\ Head(str) = " " THEN LStrip(Tail(str)) ELSE str

RECURSIVE RStrip(_, _)
RStrip(str, ch) ==
    IF str # <<>> /\ str[Len(str)] = ch THEN RStrip(SubSeq(str, 1, Len(str) - 1), ch)
    ELSE str

Strip(str) == RStrip(LStrip(str), " ")

\* link.strip().rstrip("/")
Normalize(link) == RStrip(Strip(link), "/")

s_http == <<"h","t","t","p">>

\* A row of the scraper's sheet:
\*   <<source, title, date_text, link, author, snippet, image, scraped_at>>
SheetHeader == <<"Source", "Title", "Date", "Link", "Author", "Snippet", "Image", "Scraped">>

\* lines 56-69 for one row: does the row put its link into the set?
RowIsRecent(row, cutoff) ==
    /\ Len(row) >= 4
    /\ Normalize(row[4]) # <<>>
    /\ LET date_str == StripCell(row[3])
           parsed   == dateutil_parse(date_str)
       IN  date_str # EmptyText /\ parsed # None /\ parsed[1] >= cutoff

load_existing_links(all_rows, t) ==
    IF Len(all_rows) <= 1 THEN {}
    ELSE LET cutoff == t - DAYS_LIMIT * Day
         IN  {Normalize(all_rows[i][4]) :
                 i \in {j \in 2..Len(all_rows) : RowIsRecent(all_rows[j], cutoff)}}

(* A container of a page, as the page-query collaborator shows it:         *)
(*   title   None, or Some(the text of the title element)                  *)
(*   href    None, or Some(urljoin(base, href.strip()))                    *)
(*   date    None (no date element), or Some(the text of the element)      *)
(*   snippet the text of the snippet element                               *)
(*   raises  a query on the element raises                                 *)

\* extract_article, lines 208-254
extract_article(el, source, t) ==
    LET published_date == IF el.date = None THEN None ELSE parse_date(el.date[1], t)
    IN  [source         |-> source,
         title          |-> IF el.title = None THEN None ELSE Some(Strip(el.title[1])),
         link           |-> IF el.href = None THEN None ELSE Some(RStrip(el.href[1], "/")),
         date_text      |-> format(published_date),
         snippet        |-> el.snippet,
         published_date |-> published_date,
         scraped_at     |-> format(Some(t))]

\* is_valid with "len(title) <= 6" for "len(title) < 6"
is_valid_title_off_by_one(art, links) ==
    /\ art.title # None /\ art.title[1] # <<>>
    /\ art.link # None /\ art.link[1] # <<>>
    /\ ~(Len(art.title[1]) <= MIN_TITLE_LEN)
    /\ IsPrefix(s_http, art.link[1])
    /\ Normalize(art.link[1]) \notin links

\* is_valid, lines 256-265
is_valid(art, links) ==
    /\ art.title # None /\ art.title[1] # <<>>
    /\ art.link # None /\ art.link[1] # <<>>
    /\ ~(Len(art.title[1]) < MIN_TITLE_LEN)
    /\ IsPrefix(s_http, art.link[1])
    /\ Normalize(art.link[1]) \notin links

\* lines 196-199 for one extracted record: does it join the list?
Accepted(data, links, cutoff) ==
    /\ is_valid(data, links)
    /\ ~(data.published_date # None /\ data.published_date[1] < cutoff)

\* the loop of lines 193-201 over elements[:limit]
RECURSIVE ScrapeElements(_, _, _, _, _, _)
ScrapeElements(els, source, t, links, cutoff, acc) ==
    IF els = <<>> THEN acc
    ELSE IF ~Head(els).raises
            /\ Accepted(extract_article(Head(els), source, t), links, cutoff)
         THEN ScrapeElements(Tail(els), source, t, links, cutoff,
                             Append(acc, extract_article(Head(els), source, t)))
         ELSE ScrapeElements(Tail(els), source, t, links, cutoff, acc)

\* the row of lines 275-284
RowOf(a) ==
    <<a.source, a.title[1], a.date_text, Normalize(a.link[1]),
      "", a.snippet, "", a.scraped_at>>

\* what run does with an exception that leaves scrape_site (lines 168-169)
SiteExceptionAborts == "abort"

OnSiteException == "continue"

-----------------------------------------------------------------------------
(* Spec: SheetNewsScraper.run, once and again, against the sheet           *)

MaxContainers == 2   \* containers on the pages of all sites together
MaxElements   == 2   \* containers on the page of SpecScrape's one site
MaxRetry      == 1   \* 429 answers to one append
DEFAULT_LIMIT == 20

Runs == {1, 2}

NSites == Len(pages)

SiteName(s) == <<"site1", "site2", "site3">>[s]

t_six   == <<"a","b","c","d","e","f">>
t_other == <<"u","v","w","x","y","z">>
t_five  == <<"a","b","c","d","e">>

l_a   == s_http \o <<":","a">>
l_b   == s_http \o <<":","b">>
l_ftp == <<"f","t","p",":","b">>

El(title, href, date, snippet, raises) ==
    [title |-> title, href |-> href, date |-> date, snippet |-> snippet,
     raises |-> raises]

HoursAgo(n) == <<Num(n), Word(Plural(s_hour)), Word(s_ago)>>
DaysAgo(n)  == <<Num(n), Word(Plural(s_day)), Word(s_ago)>>

\* an undated article, and the same link (written with a trailing slash)
\* under another title, with another snippet and a date
RunKinds ==
    {El(Some(t_six), Some(l_a), None, "text", FALSE),
     El(Some(t_other), Some(l_a \o <<"/">>), Some(<<Word(s_today)>>), "other", FALSE)}

StoredRow(link, cell) == <<"site0", t_six, cell, link, "", "text", "", cell>>

\* rows the sheet holds before the first run, for a run at instant t
StoredBefore(t) ==
    {<<>>,
     <<StoredRow(l_a \o <<"/">>, Stamp((t - Hour) \div Second))>>,
     <<StoredRow(l_a, EmptyText)>>,
     <<StoredRow(l_a, Stamp((t - 5 * Day) \div Second))>>}

RunNow == At(2024, 3, 10, 14, 0, 0, 1)

Page(els, limit) == [elements |-> els, limit |-> limit]

RunPages ==
    LET P == SeqsUpTo(RunKinds, MaxContainers)
        T == {t \in P \X P \X P : Len(t[1]) + Len(t[2]) + Len(t[3]) <= MaxContainers}
    IN  {<<Page(t[1], DEFAULT_LIMIT), Page(t[2], DEFAULT_LIMIT),
           Page(t[3], DEFAULT_LIMIT)>> : t \in T}

\* the state once the module is imported (line 72) and the scraper built
\* (line 147)
Started ==
    /\ existing_links = load_existing_links(sheet, now)
    /\ cutoff_time = now - CUT_OFF_HOURS * Hour
    /\ site = 1
    /\ articles = <<>>
    /\ idx = 0
    /\ saved = 0
    /\ attempts = 0
    /\ total_found = 0
    /\ total_saved = 0
    /\ runs = 1
    /\ hist = <<>>
    /\ base = Len(sheet)
    /\ pc = IF NSites = 0 THEN "done" ELSE "scrape"

Init ==
    /\ now = RunNow
    /\ sheet \in {<<SheetHeader>> \o d : d \in StoredBefore(now)}
    /\ pages \in RunPages
    /\ Started
    /\ ParseIdle /\ MergeIdle /\ CleanupIdle

\* the loop of run moves on: lines 160 and 170
AfterSite(s) == IF s < NSites THEN "scrape" ELSE "done"

Entry(outcome) == [outcome |-> outcome, saved |-> FALSE]

UpdateLast(h, e) == [h EXCEPT ![Len(h)] = e]

\* lines 162-164: the page loads (after sleep(1)) and its containers are read
ScrapeSite ==
    /\ pc = "scrape"
    /\ now' = now + Second
    /\ LET page == pages[site]
           els  == SubSeq(page.elements, 1, Min2(page.limit, Len(page.elements)))
           arts == ScrapeElements(els, SiteName(site), now', existing_links,
                                  cutoff_time, <<>>)
       IN  /\ articles' = arts
           /\ total_found' = total_found + Len(arts)
           /\ hist' = Append(hist, Entry("ok"))
    /\ pc' = "save"
    /\ UNCHANGED <<sheet, pages, existing_links, cutoff_time, site, idx, saved,
                   attempts, total_saved, runs, base, parseVars, mergeVars, cleanupVars>>

\* lines 183-203: the page loads, then (after sleep(1)) the page query
\* raises; scrape_site catches it and returns its list, still empty
ScrapeSiteError ==
    /\ pc = "scrape"
    /\ now' = now + Second
    /\ articles' = <<>>
    /\ hist' = Append(hist, Entry("error"))
    /\ pc' = "save"
    /\ UNCHANGED <<sheet, pages, existing_links, cutoff_time, site, idx, saved,
                   attempts, total_found, total_saved, runs,
                   base, parseVars, mergeVars, cleanupVars>>

\* lines 161-169 and 205: the page was scraped and browser.close() raises;
\* the exception reaches run, which reports it and drops the site's list
ScrapeSiteCrash ==
    /\ pc = "scrape"
    /\ now' = now + Second
    /\ hist' = Append(hist, Entry("crash"))
    /\ IF OnSiteException = "continue"
       THEN /\ pc' = AfterSite(site)
            /\ site' = IF site < NSites THEN site + 1 ELSE site
       ELSE /\ pc' = "aborted"
            /\ site' = site
    /\ UNCHANGED <<sheet, pages, existing_links, cutoff_time, articles, idx,
                   saved, attempts, total_found, total_saved, runs,
                   base, parseVars, mergeVars, cleanupVars>>

\* lines 268-270: save_articles reads the sheet again
SaveBegin ==
    /\ pc = "save"
    /\ existing_links' = load_existing_links(sheet, now)
    /\ idx' = 1
    /\ saved' = 0
    /\ attempts' = 0
    /\ pc' = "append"
    /\ UNCHANGED <<sheet, pages, now, cutoff_time, site, articles, total_found,
                   total_saved, runs, hist, base, parseVars, mergeVars, cleanupVars>>

Pending == pc = "append" /\ idx <= Len(articles)

\* lines 272-274
SkipExisting ==
    /\ Pending
    /\ Normalize(articles[idx].link[1]) \in existing_links
    /\ idx' = idx + 1
    /\ UNCHANGED <<sheet, pages, now, existing_links, cutoff_time, site, articles,
                   saved, attempts, total_found, total_saved, runs, hist,
                   pc,
                   base, parseVars, mergeVars, cleanupVars>>

\* lines 287-291
AppendOk ==
    /\ Pending
    /\ Normalize(articles[idx].link[1]) \notin existing_links
    /\ sheet' = Append(sheet, RowOf(articles[idx]))
    /\ existing_links' = existing_links \cup {Normalize(articles[idx].link[1])}
    /\ saved' = saved + 1
    /\ idx' = idx + 1
    /\ attempts' = 0
    /\ UNCHANGED <<pages, now, cutoff_time, site, articles, total_found,
                   total_saved, runs, hist, pc,
                   base, parseVars, mergeVars, cleanupVars>>

\* Append429 with the row given up after the pause, as a non-429 error is
Append429Skips ==
    /\ Pending
    /\ Normalize(articles[idx].link[1]) \notin existing_links
    /\ attempts < MaxRetry
    /\ attempts' = attempts + 1
    /\ now' = now + RETRY_SLEEP_S * Second
    /\ idx' = idx + 1
    /\ UNCHANGED <<sheet, pages, existing_links, cutoff_time, site, articles,
                   saved, total_found, total_saved, runs, hist,
                   pc,
                   base, parseVars, mergeVars, cleanupVars>>

\* lines 292-295: the store answers 429; sleep and try the same row again
Append429 ==
    /\ Pending
    /\ Normalize(articles[idx].link[1]) \notin existing_links
    /\ attempts < MaxRetry
    /\ attempts' = attempts + 1
    /\ now' = now + RETRY_SLEEP_S * Second
    /\ UNCHANGED <<sheet, pages, existing_links, cutoff_time, site, articles, idx,
                   saved, total_found, total_saved, runs, hist,
                   pc,
                   base, parseVars, mergeVars, cleanupVars>>

\* lines 296-298: another API error; the row is given up
AppendError ==
    /\ Pending
    /\ Normalize(articles[idx].link[1]) \notin existing_links
    /\ idx' = idx + 1
    /\ attempts' = 0
    /\ UNCHANGED <<sheet, pages, now, existing_links, cutoff_time, site, articles,
                   saved, total_found, total_saved, runs, hist,
                   pc,
                   base, parseVars, mergeVars, cleanupVars>>

\* lines 299 and 166-167: save_articles returns, run goes to the next config
SaveEnd ==
    /\ pc = "append"
    /\ idx > Len(articles)
    /\ total_saved' = total_saved + saved
    /\ hist' = UpdateLast(hist, [hist[Len(hist)] EXCEPT !.saved = TRUE])
    /\ pc' = AfterSite(site)
    /\ site' = IF site < NSites THEN site + 1 ELSE site
    /\ UNCHANGED <<sheet, pages, now, existing_links, cutoff_time, articles, idx,
                   saved, attempts, total_found, runs,
                   base, parseVars, mergeVars, cleanupVars>>

\* the script is started again, right after the run before it ended
RunAgain ==
    /\ pc = "done"
    /\ runs + 1 \in Runs
    /\ NSites > 0
    /\ runs' = runs + 1
    /\ now' = now + Second
    /\ existing_links' = load_existing_links(sheet, now')
    /\ cutoff_time' = now' - CUT_OFF_HOURS * Hour
    /\ site' = 1
    /\ articles' = <<>>
    /\ idx' = 0
    /\ saved' = 0
    /\ attempts' = 0
    /\ total_found' = 0
    /\ total_saved' = 0
    /\ hist' = <<>>
    /\ base' = Len(sheet)
    /\ pc' = "scrape"
    /\ UNCHANGED <<sheet, pages, parseVars, mergeVars, cleanupVars>>

Next ==
    \/ ScrapeSite
    \/ ScrapeSiteError
    \/ ScrapeSiteCrash
    \/ SaveBegin
    \/ SkipExisting
    \/ AppendOk
    \/ Append429
    \/ AppendError
    \/ SaveEnd
    \/ RunAgain

Spec == Init /\ [][Next]_vars

-----------------------------------------------------------------------------
(* SpecScrape: the same program with one configured site whose page shows  *)
(* every kind of container                                                 *)

ScrapeKinds ==
    {El(Some(t_six), Some(l_a), None, "text", FALSE),
     El(Some(t_other), Some(l_a \o <<"/">>), Some(HoursAgo(1)), "other", FALSE),
     El(Some(t_five), Some(l_b), None, "text", FALSE),
     El(None, Some(l_b), None, "text", FALSE),
     El(Some(t_six), None, None, "text", FALSE),
     El(Some(t_six), Some(l_ftp), None, "text", FALSE),
     El(Some(t_six), Some(l_b), Some(DaysAgo(2)), "text", FALSE),
     El(Some(t_six), Some(l_b), Some(<<Word(s_yesterday)>>), "text", FALSE),
     El(Some(t_six), Some(l_b), Some(<<Word(s_soon)>>), "text", FALSE),
     El(Some(t_six), Some(l_b), None, "text", TRUE)}

\* for a scraper built at 13:00:00 sharp, "yesterday" (noon) is the freshness
\* cutoff itself; built one tick later, it is older
ScrapeNows == {At(2024, 3, 10, 13, 0, 0, 0), At(2024, 3, 10, 13, 0, 0, 1)}

InitScrape ==
    /\ now \in ScrapeNows
    /\ sheet \in {<<SheetHeader>>,
                  <<SheetHeader, StoredRow(l_a \o <<"/">>, Stamp((now - Hour) \div Second))>>}
    /\ pages \in {<<Page(els, limit)>> :
                     els \in SeqsUpTo(ScrapeKinds, MaxElements),
                     limit \in {1, DEFAULT_LIMIT}}
    /\ Started
    /\ ParseIdle /\ MergeIdle /\ CleanupIdle

SpecScrape == InitScrape /\ [][Next]_vars

-----------------------------------------------------------------------------
(* Claims about the scraper *)

\* positions of the rows this run has appended
AppendedNow == (base + 1)..Len(sheet)

\* positions of the rows an earlier run appended
AppendedBefore == {i \in 2..base : sheet[i][1] # "site0"}

LinkAt(i) == Normalize(sheet[i][4])

\* C5: a second run right after the first, over the same pages, appends no
\* row for an article the first run stored, dated or not.
C5_SecondRunAppendsNoStoredArticle ==
    runs = 2 => \A j \in AppendedNow : \A i \in AppendedBefore : LinkAt(j) # LinkAt(i)

\* the set has just been built from the sheet, at the present instant
JustLoaded ==
    \/ pc = "scrape" /\ site = 1
    \/ pc = "append" /\ idx = 1 /\ attempts = 0

DateIsUnknown(cell) == StripCell(cell) = EmptyText \/ dateutil_parse(StripCell(cell)) = None

DateInWindow(cell, t) ==
    /\ dateutil_parse(StripCell(cell)) # None
    /\ dateutil_parse(StripCell(cell))[1] >= t - 2 * Day

\* C6: the recent-link set built from the sheet is the set of the normalized
\* links of the stored rows with a non-empty link whose date is within the
\* recency window of now, or is missing or unparsable.
C6_RecentLinkSetKeepsUnknownDates ==
    JustLoaded =>
        existing_links =
            {LinkAt(i) : i \in {j \in 2..Len(sheet) :
                /\ Len(sheet[j]) >= 4
                /\ LinkAt(j) # <<>>
                /\ (DateIsUnknown(sheet[j][3]) \/ DateInWindow(sheet[j][3], now))}}

\* the claim's test of one container, at the instant of the scrape
ClaimAccepts(el) ==
    /\ ~el.raises
    /\ el.title # None
    /\ Len(el.title[1]) >= 6
    /\ el.href # None
    /\ IsPrefix(s_http, el.href[1])
    /\ Normalize(el.href[1]) \notin existing_links
    /\ \/ el.date = None
       \/ parse_date(el.date[1], now) = None
       \/ parse_date(el.date[1], now)[1] >= cutoff_time

Considered ==
    SubSeq(pages[site].elements, 1, Min2(pages[site].limit, Len(pages[site].elements)))

JustScraped == pc = "save" /\ hist[Len(hist)].outcome = "ok"

\* C7: the list scrape_site returns holds, in document order, the records
\* of exactly those of the first config.limit containers whose title is
\* present with length at least 6, whose link is present and starts with
\* "http", whose normalized link is not in the recent-link set, and whose
\* published date is absent or not strictly older than the freshness cutoff.
C7_AcceptedIffValidFreshNew ==
    JustScraped =>
        LET want == SelectSeq(Considered, ClaimAccepts)
        IN  /\ Len(articles) = Len(want)
            /\ \A i \in 1..Len(want) :
                  /\ articles[i].title = want[i].title
                  /\ articles[i].link = Some(Normalize(want[i].href[1]))
                  /\ articles[i].snippet = want[i].snippet

C7_Witness ==
    /\ JustScraped
    /\ pages[1].limit = DEFAULT_LIMIT
    /\ Len(pages[1].elements) = 2
    /\ pages[1].elements[1].title = Some(t_five)
    /\ pages[1].elements[2].date = Some(<<Word(s_yesterday)>>)
    /\ Len(articles) = 1
    /\ articles[1].title = Some(t_six)
    /\ articles[1].published_date = Some(cutoff_time)

Failed(s) == hist[s].outcome \in {"error", "crash"}

\* C8: a site whose scrape failed contributes an empty list and no row of
\* this run; the run is never stopped by it: each configured site is taken
\* in turn, every site whose scrape did not throw out of scrape_site is
\* saved, and short of the final summary the run is at a site, with a step
\* of it to take.
C8_SiteFailureIsolated ==
    /\ pc \in {"scrape", "save", "append", "done"}
    /\ \A s \in 1..Len(hist) :
          Failed(s) => \A i \in AppendedNow : sheet[i][1] # SiteName(s)
    /\ (pc \in {"save", "append"} /\ Failed(Len(hist))) => articles = <<>>
    /\ pc \in {"save", "append"} => Len(hist) = site
    /\ pc = "scrape" => Len(hist) = site - 1
    /\ pc = "done" =>
          /\ Len(hist) = NSites
          /\ \A s \in 1..NSites : hist[s].outcome # "crash" => hist[s].saved
    /\ pc # "done" => site \in 1..NSites
    /\ pc = "append" => idx \in 1..(Len(articles) + 1)

C8_Witness ==
    /\ pc = "done"
    /\ hist[1].outcome = "crash"
    /\ hist[2].outcome = "error"
    /\ hist[3].outcome = "ok"
    /\ Len(sheet) > base
    /\ \A i \in AppendedNow : sheet[i][1] = SiteName(3)

\* C10: the rows one run appends have pairwise different normalized links,
\* whichever site's pass appended them and whatever their titles, snippets
\* and dates are.
C10_NoLinkAppendedTwiceInRun ==
    \A i \in AppendedNow : \A j \in AppendedNow : i # j => LinkAt(i) # LinkAt(j)

-----------------------------------------------------------------------------
(* SpecSave: one call of save_articles, on the list scrape_site returned   *)
(* for the page of the one configured site                                 *)

SaveKinds ==
    {El(Some(t_six), Some(l_a), None, "text", FALSE),
     El(Some(t_other), Some(l_a \o <<"/">>), Some(HoursAgo(1)), "other", FALSE),
     El(Some(t_six), Some(l_b), None, "text", FALSE)}

\* run has called scrape_site for its one site (lines 162-164) and is about
\* to call save_articles (line 165)
InitSave ==
    /\ now = RunNow + Second
    /\ sheet \in {<<SheetHeader>>,
                  <<SheetHeader, StoredRow(l_b, Stamp((RunNow - Hour) \div Second))>>}
    /\ pages \in {<<Page(els, DEFAULT_LIMIT)>> : els \in SeqsUpTo(SaveKinds, MaxElements)}
    /\ existing_links = load_existing_links(sheet, RunNow)
    /\ cutoff_time = RunNow - CUT_OFF_HOURS * Hour
    /\ site = 1
    /\ articles = ScrapeElements(pages[1].elements, SiteName(1), now,
                                 existing_links, cutoff_time, <<>>)
    /\ idx = 0
    /\ saved = 0
    /\ attempts = 0
    /\ total_found = Len(articles)
    /\ total_saved = 0
    /\ runs = 1
    /\ hist = <<Entry("ok")>>
    /\ base = Len(sheet)
    /\ pc = "save"
    /\ ParseIdle /\ MergeIdle /\ CleanupIdle

NextSave ==
    \/ SaveBegin
    \/ SkipExisting
    \/ AppendOk
    \/ Append429
    \/ AppendError
    \/ SaveEnd

\* the steps that do not depend on the store answering 429: the program
\* runs on, and the store in the end answers an append otherwise than by 429
SaveProgress ==
    \/ SaveBegin
    \/ SkipExisting
    \/ AppendOk
    \/ AppendError
    \/ SaveEnd

SpecSave == InitSave /\ [][NextSave]_vars /\ WF_vars(SaveProgress)

\* the row under attempt is one the loop has not skipped as known
Attempting == Pending /\ Normalize(articles[idx].link[1]) \notin existing_links

\* a step during which the program paused (time.sleep(30), the only pause
\* of save_articles): the same row is under attempt afterwards, nothing is
\* written and nothing is counted
PauseRetriesSameRow ==
    (pc = "append" /\ now' # now) =>
        /\ Attempting
        /\ now' = now + RETRY_SLEEP_S * Second
        /\ pc' = "append" /\ idx' = idx /\ articles' = articles
        /\ sheet' = sheet /\ existing_links' = existing_links /\ saved' = saved
        /\ Attempting'

\* a step that leaves a row under attempt without writing it (a non-429
\* error) leaves the link set and the count as they were
ErrorSkipsWithoutLink ==
    (Attempting /\ idx' # idx /\ sheet' = sheet) =>
        /\ idx' = idx + 1
        /\ now' = now
        /\ existing_links' = existing_links
        /\ Normalize(articles[idx].link[1]) \notin existing_links'
        /\ saved' = saved

\* the sheet changes only by one row, that of the record under attempt,
\* appended as the loop leaves the record for good; the count and the link
\* set follow
AppendsOnceAndCounts ==
    /\ idx' \in {idx, idx + 1} \/ pc # "append"
    /\ sheet' # sheet =>
        /\ Attempting
        /\ sheet' = Append(sheet, RowOf(articles[idx]))
        /\ idx' = idx + 1
        /\ saved' = saved + 1
        /\ existing_links' = existing_links \cup {Normalize(articles[idx].link[1])}
    /\ (pc = "append" /\ pc' = "append" /\ saved' # saved) => sheet' # sheet
    /\ pc' = "done" => total_saved' = Len(sheet') - base

SaveTerminates == (pc # "done") ~> (pc = "done")

=============================================================================
